---- MODULE Spec2Model ----
(***************************************************************************)
(* Model of app.py of Password_Strength_Checker: the loading of the two    *)
(* pre-trained artifacts and predict_password_strength, the function that  *)
(* extracts the features of a password, asks the classifier for a raw      *)
(* label and a probability vector, and applies the chain of override       *)
(* rules.                                                                  *)
(*                                                                         *)
(* A password is a sequence of characters, a character a one-character     *)
(* string.  A float is an exact rational <<numerator, denominator>>; a     *)
(* probability is an integer number of hundredths (100 is 1.0).  The two   *)
(* non-ASCII signs of the reason texts are written "<=" and ">=".          *)
(***************************************************************************)
EXTENDS Integers, Sequences, FiniteSets, TLC

VARIABLES
    loaded,              \* "start", "ready" (load_models returned), "stopped" (st.stop())
    clf,                 \* the classifier artifact, None until loaded
    vectorizer,          \* the vectorizer artifact, None until loaded
    password,            \* argument of the latest call of predict_password_strength
    result,              \* label returned by the latest call
    probabilities,       \* probabilities returned by the latest call
    reason,              \* reason returned by the latest call
    original_result,     \* the latest call's local original_result (raw label)
    ncalls,              \* calls of predict_password_strength so far
    transform_calls,     \* calls of vectorizer.transform so far
    predict_calls,       \* calls of clf.predict so far
    predict_proba_calls, \* calls of clf.predict_proba so far
    repeated             \* the latest call had the argument of the call before it

vars == <<loaded, clf, vectorizer, password, result, probabilities, reason,
          original_result, ncalls, transform_calls, predict_calls,
          predict_proba_calls, repeated>>

None == "None"    \* an artifact not loaded, a reason not yet returned
NoLabel == -1     \* result and original_result while unassigned

(***************************************************************************)
(* Bounds.                                                                 *)
(***************************************************************************)
MaxLen == 31     \* longest password tried
MaxCalls == 2    \* calls of predict_password_strength in one behaviour

(***************************************************************************)
(* Characters and the str predicates the code uses.  OtherAlnum holds a    *)
(* character that is alphanumeric but neither cased nor a digit (a CJK     *)
(* ideograph): isalnum is true of it, islower, isupper, isdigit are not.   *)
(***************************************************************************)
LowerChars == {"a", "b", "c", "d", "e", "h", "i", "o", "r", "s", "u", "w", "x", "y"}
UpperChars == {"P", "Q", "T", "Z"}
DigitChars == {"1", "2", "3", "4", "5", "7"}
OtherAlnum == {"U+4E2D"}

islower(c) == c \in LowerChars
isupper(c) == c \in UpperChars
isdigit(c) == c \in DigitChars
isalnum(c) == c \in LowerChars \cup UpperChars \cup DigitChars \cup OtherAlnum

(***************************************************************************)
(* The passwords tried: the three examples of the app, and every prefix    *)
(* up to MaxLen of the endless repetition of a pattern.                    *)
(***************************************************************************)
example_passwords ==
    [Weak   |-> <<"a", "b", "c", "1", "2", "3">>,
     Normal |-> <<"P", "a", "s", "s", "w", "o", "r", "d", "1", "2", "3", "!">>,
     Strong |-> <<"T", "h", "e", "Q", "u", "i", "x", "y", "#", "2", "3", "4",
                  "5", "2", "2", "w", "i", "s", "h">>]

Patterns ==
    { <<"a">>, <<"#">>, <<"U+4E2D">>, <<"a", "Z">>, <<"a", "7", "Z">>,
      <<"a", "Z", "7", "#">> }

Repeat(pattern, n) == [i \in 1..n |-> pattern[((i - 1) % Len(pattern)) + 1]]

Passwords ==
    { Repeat(p, n) : p \in Patterns, n \in 0..MaxLen }
        \cup { example_passwords[k] : k \in DOMAIN example_passwords }

\* sum([...]) of booleans counts True as 1.
Bool2Int(b) == IF b THEN 1 ELSE 0

(***************************************************************************)
(* The artifacts.  A vectorizer is its vocabulary, and transform counts    *)
(* the occurrences of each term; a classifier is a pair of parameters that *)
(* fix, for every feature vector, one label and one probability vector.    *)
(* Both are deterministic and are never written after the load.            *)
(***************************************************************************)
Vectorizers == { <<"a", "1">>, <<"Z", "#", "s">> }

ProbaTable ==
    << <<70, 20, 10>>, <<20, 60, 20>>, <<5, 15, 80>> >>

Classifiers == [offset : 0..2, shift : 0..1]

SeqSum(s) ==
    LET RECURSIVE Go(_)
        Go(k) == IF k = 0 THEN 0 ELSE s[k][1] + s[k][2] + Go(k - 1)
    IN Go(Len(s))

vectorizer_transform(pw) ==
    [t \in 1..Len(vectorizer) |->
        <<Cardinality({i \in 1..Len(pw) : pw[i] = vectorizer[t]}), 1>>]

\* Variant: a classifier whose answer drifts with the calls made on it.
clf_predict_stateful(matrix) == (SeqSum(matrix) + clf.offset + predict_calls) % 3

clf_predict(matrix) == (SeqSum(matrix) + clf.offset) % 3

clf_predict_proba(matrix) ==
    ProbaTable[((SeqSum(matrix) + clf.shift) % Len(ProbaTable)) + 1]

(***************************************************************************)
(* predict_password_strength, piece by piece.                              *)
(***************************************************************************)
length_normalised_lowercase(pw) ==
    <<Cardinality({i \in 1..Len(pw) : islower(pw[i])}), Len(pw)>>
length_normalised_uppercase(pw) ==
    <<Cardinality({i \in 1..Len(pw) : isupper(pw[i])}), Len(pw)>>
length_normalised_digit(pw) ==
    <<Cardinality({i \in 1..Len(pw) : isdigit(pw[i])}), Len(pw)>>

new_matrix(pw) ==
    vectorizer_transform(pw) \o
        << <<Len(pw), 1>>, length_normalised_lowercase(pw),
           length_normalised_uppercase(pw), length_normalised_digit(pw) >>

has_lower(pw) == \E i \in 1..Len(pw) : islower(pw[i])
has_upper(pw) == \E i \in 1..Len(pw) : isupper(pw[i])
has_digit(pw) == \E i \in 1..Len(pw) : isdigit(pw[i])
has_special(pw) == \E i \in 1..Len(pw) : ~isalnum(pw[i])

char_types(pw) ==
    Bool2Int(has_lower(pw)) + Bool2Int(has_upper(pw))
        + Bool2Int(has_digit(pw)) + Bool2Int(has_special(pw))

\* Variants of the rule conditions, each off by one at its threshold.
Rule1_lt6(length_pass) == length_pass < 6
Rule2_lt12(length_pass, raw) == length_pass < 12 /\ raw = 2
Rule4_gt30(length_pass) == length_pass > 30
Rule5_ge16(length_pass, raw) == length_pass >= 16 /\ raw = 0

Rule1(length_pass) == length_pass <= 6
Rule2(length_pass, raw) == length_pass <= 12 /\ raw = 2
Rule3(length_pass, types) == length_pass >= 18 /\ types >= 3
Rule4(length_pass) == length_pass >= 30
Rule5(length_pass, raw) == length_pass >= 15 /\ raw = 0

Rule3Reason(length_pass, types) ==
    "Long password (" \o ToString(length_pass)
        \o " chars) with good diversity (" \o ToString(types) \o "/4 types)"

\* Variant: rule 5 tried before rule 3.
apply_rules_5_before_3(length_pass, raw, types) ==
    IF Rule1(length_pass)
    THEN [result |-> 0, reason |-> "Too short (<=6 characters)"]
    ELSE IF Rule2(length_pass, raw)
    THEN [result |-> 1, reason |-> "Too short to be strong (<=12 chars)"]
    ELSE IF Rule5(length_pass, raw)
    THEN [result |-> 1, reason |-> "Too long to be weak (>=15 chars)"]
    ELSE IF Rule3(length_pass, types)
    THEN [result |-> 2, reason |-> Rule3Reason(length_pass, types)]
    ELSE IF Rule4(length_pass)
    THEN [result |-> 2, reason |-> "Very long password (>=30 chars)"]
    ELSE [result |-> raw, reason |-> "Model prediction"]

\* Variant: rule 2 sets the label to 0 instead of 1.
apply_rules_rule2_weak(length_pass, raw, types) ==
    IF Rule1(length_pass)
    THEN [result |-> 0, reason |-> "Too short (<=6 characters)"]
    ELSE IF Rule2(length_pass, raw)
    THEN [result |-> 0, reason |-> "Too short to be strong (<=12 chars)"]
    ELSE IF Rule3(length_pass, types)
    THEN [result |-> 2, reason |-> Rule3Reason(length_pass, types)]
    ELSE IF Rule4(length_pass)
    THEN [result |-> 2, reason |-> "Very long password (>=30 chars)"]
    ELSE IF Rule5(length_pass, raw)
    THEN [result |-> 1, reason |-> "Too long to be weak (>=15 chars)"]
    ELSE [result |-> raw, reason |-> "Model prediction"]

apply_rules(length_pass, raw, types) ==
    IF Rule1(length_pass)
    THEN [result |-> 0, reason |-> "Too short (<=6 characters)"]
    ELSE IF Rule2(length_pass, raw)
    THEN [result |-> 1, reason |-> "Too short to be strong (<=12 chars)"]
    ELSE IF Rule3(length_pass, types)
    THEN [result |-> 2, reason |-> Rule3Reason(length_pass, types)]
    ELSE IF Rule4(length_pass)
    THEN [result |-> 2, reason |-> "Very long password (>=30 chars)"]
    ELSE IF Rule5(length_pass, raw)
    THEN [result |-> 1, reason |-> "Too long to be weak (>=15 chars)"]
    ELSE [result |-> raw, reason |-> "Model prediction"]

OneHot(label) == [i \in 1..3 |-> IF i = label + 1 THEN 100 ELSE 0]

\* Variant: the probabilities are rebuilt from the label when a rule fires.
predict_password_strength_resynth(pw) ==
    IF Len(pw) = 0
    THEN [result |-> 0, probabilities |-> <<100, 0, 0>>,
          reason |-> "Empty password", original_result |-> NoLabel,
          transform |-> 0, predict |-> 0, predict_proba |-> 0]
    ELSE LET raw == clf_predict(new_matrix(pw))
             out == apply_rules(Len(pw), raw, char_types(pw))
         IN [result |-> out.result,
             probabilities |-> IF out.result = raw
                               THEN clf_predict_proba(new_matrix(pw))
                               ELSE OneHot(out.result),
             reason |-> out.reason, original_result |-> raw,
             transform |-> 1, predict |-> 1, predict_proba |-> 1]

\* Variant: the vectorizer is called before the test for the empty password.
predict_password_strength_late_guard(pw) ==
    IF Len(pw) = 0
    THEN [result |-> 0, probabilities |-> <<100, 0, 0>>,
          reason |-> "Empty password", original_result |-> NoLabel,
          transform |-> 1, predict |-> 0, predict_proba |-> 0]
    ELSE LET raw == clf_predict(new_matrix(pw))
             out == apply_rules(Len(pw), raw, char_types(pw))
         IN [result |-> out.result,
             probabilities |-> clf_predict_proba(new_matrix(pw)),
             reason |-> out.reason, original_result |-> raw,
             transform |-> 1, predict |-> 1, predict_proba |-> 1]

\* The value returned, the raw label, and the calls made on the artifacts.
predict_password_strength(pw) ==
    IF Len(pw) = 0
    THEN [result |-> 0, probabilities |-> <<100, 0, 0>>,
          reason |-> "Empty password", original_result |-> NoLabel,
          transform |-> 0, predict |-> 0, predict_proba |-> 0]
    ELSE LET raw == clf_predict(new_matrix(pw))
             out == apply_rules(Len(pw), raw, char_types(pw))
         IN [result |-> out.result,
             probabilities |-> clf_predict_proba(new_matrix(pw)),
             reason |-> out.reason, original_result |-> raw,
             transform |-> 1, predict |-> 1, predict_proba |-> 1]

(***************************************************************************)
(* The state machine.                                                      *)
(***************************************************************************)
Init ==
    /\ loaded = "start"
    /\ clf = None
    /\ vectorizer = None
    /\ password = <<>>
    /\ result = NoLabel
    /\ probabilities = <<>>
    /\ reason = None
    /\ original_result = NoLabel
    /\ ncalls = 0
    /\ transform_calls = 0
    /\ predict_calls = 0
    /\ predict_proba_calls = 0
    /\ repeated = FALSE

callvars == <<password, result, probabilities, reason, original_result,
              ncalls, transform_calls, predict_calls, predict_proba_calls,
              repeated>>

\* load_models: both joblib.load calls succeed.
LoadModels ==
    /\ loaded = "start"
    /\ \E c \in Classifiers, v \in Vectorizers :
          /\ clf' = c
          /\ vectorizer' = v
    /\ loaded' = "ready"
    /\ UNCHANGED callvars

\* load_models: a joblib.load raises; st.error, st.stop().
LoadModelsFails ==
    /\ loaded = "start"
    /\ loaded' = "stopped"
    /\ UNCHANGED <<clf, vectorizer>>
    /\ UNCHANGED callvars

\* One call predict_password_strength(pw).
Predict(pw) ==
    /\ loaded = "ready"
    /\ ncalls < MaxCalls
    /\ \E r \in {predict_password_strength(pw)} :
          /\ password' = pw
          /\ result' = r.result
          /\ probabilities' = r.probabilities
          /\ reason' = r.reason
          /\ original_result' = r.original_result
          /\ transform_calls' = transform_calls + r.transform
          /\ predict_calls' = predict_calls + r.predict
          /\ predict_proba_calls' = predict_proba_calls + r.predict_proba
    /\ ncalls' = ncalls + 1
    /\ repeated' = (ncalls > 0 /\ pw = password)
    /\ UNCHANGED <<loaded, clf, vectorizer>>

Next ==
    \/ LoadModels
    \/ LoadModelsFails
    \/ \E pw \in Passwords : Predict(pw)

Spec == Init /\ [][Next]_vars

(***************************************************************************)
(* Properties.                                                             *)
(***************************************************************************)
NonEmptyCall == ncalls > 0 /\ Len(password) > 0
PwLen == Len(password)
PwTypes == char_types(password)

\* C1 (as stated): every password of 15 or more characters whose raw label
\* is Weak gets the label Normal.
C1_Original ==
    (NonEmptyCall /\ PwLen >= 15 /\ original_result = 0) => result = 1

\* C1 (amended): a password of 15 or more characters whose raw label is Weak
\* is never labelled Weak: it gets Strong when it has 18 or more characters
\* and 3 or more character types, or 30 or more characters, and Normal
\* otherwise.
C1_Amended ==
    (NonEmptyCall /\ PwLen >= 15 /\ original_result = 0) =>
        result = IF (PwLen >= 18 /\ PwTypes >= 3) \/ PwLen >= 30 THEN 2 ELSE 1

C1_Witness ==
    NonEmptyCall /\ PwLen = 15 /\ original_result = 0 /\ result = 1

\* C2: a call with the empty password returns (0, [1.0, 0.0, 0.0],
\* "Empty password") and makes no call of vectorizer.transform, clf.predict
\* or clf.predict_proba.
C2_EmptyShortCircuit ==
    [][(ncalls' = ncalls + 1 /\ Len(password') = 0) =>
          /\ result' = 0
          /\ probabilities' = <<100, 0, 0>>
          /\ reason' = "Empty password"
          /\ UNCHANGED <<transform_calls, predict_calls, predict_proba_calls>>]_vars

C2_Witness ==
    /\ ncalls = 2
    /\ password = <<>>
    /\ result = 0
    /\ transform_calls = 1
    /\ predict_calls = 1
    /\ predict_proba_calls = 1

\* C3: a password of 1 to 6 characters is labelled Weak with the reason
\* "Too short (<=6 characters)", whatever the raw label and the number of
\* character types.
C3_ShortIsWeak ==
    (NonEmptyCall /\ PwLen <= 6) =>
        (result = 0 /\ reason = "Too short (<=6 characters)")

C3_Witness ==
    /\ NonEmptyCall
    /\ PwLen = 6
    /\ original_result = 2
    /\ PwTypes = 2
    /\ result = 0

C5_MediumShortNotStrong ==
    (NonEmptyCall /\ PwLen >= 7 /\ PwLen <= 12) =>
        /\ result # 2
        /\ original_result = 2 =>
              (result = 1 /\ reason = "Too short to be strong (<=12 chars)")
        /\ original_result \in {0, 1} => result = original_result

C5_Witness ==
    /\ ncalls > 0
    /\ password = example_passwords.Normal
    /\ original_result = 2
    /\ result = 1

\* C6: a password is labelled Strong only when it has 18 or more characters
\* and at least 3 of the 4 character types.
C6_StrongOnlyLongAndDiverse ==
    (NonEmptyCall /\ result = 2) => (PwLen >= 18 /\ PwTypes >= 3)

\* C7: for a non-empty password the probabilities returned are the vector
\* clf.predict_proba gave for it, whichever rule fired.
C7_RawProbabilities ==
    NonEmptyCall => probabilities = clf_predict_proba(new_matrix(password))

\* A rule fired and the label returned is not the most probable one.
C7_Witness ==
    /\ NonEmptyCall
    /\ reason # "Model prediction"
    /\ result # original_result
    /\ \E i \in 1..3 : probabilities[i] > probabilities[result + 1]

\* C8: for a non-empty password the label and the reason are those of the
\* first rule, in the order 1..5, whose condition holds, and the raw label
\* with "Model prediction" when none holds.
C8_Conditions(n, raw, types) ==
    << n <= 6,
       n <= 12 /\ raw = 2,
       n >= 18 /\ types >= 3,
       n >= 30,
       n >= 15 /\ raw = 0 >>

C8_Outcomes(n, types) ==
    << <<0, "Too short (<=6 characters)">>,
       <<1, "Too short to be strong (<=12 chars)">>,
       <<2, "Long password (" \o ToString(n) \o " chars) with good diversity ("
                \o ToString(types) \o "/4 types)">>,
       <<2, "Very long password (>=30 chars)">>,
       <<1, "Too long to be weak (>=15 chars)">> >>

C8_Matching(n, raw, types) ==
    {i \in 1..5 : C8_Conditions(n, raw, types)[i]}

C8_Expected(n, raw, types) ==
    IF C8_Matching(n, raw, types) = {}
    THEN <<raw, "Model prediction">>
    ELSE C8_Outcomes(n, types)[
            CHOOSE i \in C8_Matching(n, raw, types) :
                \A j \in C8_Matching(n, raw, types) : i <= j]

C10_Monotone ==
    NonEmptyCall =>
        /\ \A a, b \in 0..2 :
              a <= b =>
                 apply_rules(PwLen, a, PwTypes).result
                    <= apply_rules(PwLen, b, PwTypes).result
        /\ reason = "Model prediction" =>
              (result = original_result /\ PwLen >= 7 /\ PwLen <= 29)

C10_Witness ==
    /\ NonEmptyCall
    /\ PwLen = 29
    /\ reason = "Model prediction"
    /\ result = original_result

TypeOK ==
    /\ loaded \in {"start", "ready", "stopped"}
    /\ ncalls \in 0..MaxCalls
    /\ (ncalls > 0) => (result \in 0..2 /\ password \in Passwords)
====
